---------------------------- MODULE Spec2Model ----------------------------
(***************************************************************************)
(* Sidereal calendar engine (script.py) and yearly trajectory sampler      *)
(* (yearly_states.py): longitudes -> nakshatra / raasi / tithi indices.    *)
(*                                                                         *)
(* Longitudes are Python floats (IEEE-754 binary64, round to nearest,      *)
(* ties to even).  A float is modelled exactly as the integer number of    *)
(* 2^-59 degree units it holds, kept in three limbs <<a, b, c>>:           *)
(*     value = (a * 2^48 + b * 2^24 + c) * 2^-59 degrees,                  *)
(* 0 <= b, c < 2^24, a of either sign (a < 0 iff the value is negative).   *)
(* 2^-59 is the unit in the last place of the smallest literal of the      *)
(* program (0.01397), so every float the engine computes from longitudes   *)
(* that are multiples of 2^-59 is a multiple of 2^-59 too.  Negative zero  *)
(* is identified with zero (it indexes like zero).                         *)
(***************************************************************************)
EXTENDS Integers, Sequences, FiniteSets, TLC

LIMB == 2^24

\* one degree, in units of the top limb
DEG == 2^11

Norm(a, b, c) ==
    LET c1 == c % LIMB
        b0 == b + ((c - c1) \div LIMB)
        b1 == b0 % LIMB
    IN  <<a + ((b0 - b1) \div LIMB), b1, c1>>

\* the float of an integer number of degrees (exact below 2^53)
FromInt(n) == <<n * DEG, 0, 0>>

DZero == <<0, 0, 0>>

\* exact (unrounded) sum, difference, negation, small-integer multiple
DAdd(x, y) == Norm(x[1] + y[1], x[2] + y[2], x[3] + y[3])
DSub(x, y) == Norm(x[1] - y[1], x[2] - y[2], x[3] - y[3])
DNeg(x) == Norm(-x[1], -x[2], -x[3])
DMul(k, x) == Norm(k * x[1], k * x[2], k * x[3])

DNegative(x) == x[1] < 0
DAbs(x) == IF DNegative(x) THEN DNeg(x) ELSE x

\* x < y, x <= y
DLess(x, y) ==
    \/ x[1] < y[1]
    \/ x[1] = y[1] /\ x[2] < y[2]
    \/ x[1] = y[1] /\ x[2] = y[2] /\ x[3] < y[3]
DLeq(x, y) == x = y \/ DLess(x, y)

RECURSIVE BitLen(_)
BitLen(n) == IF n = 0 THEN 0 ELSE 1 + BitLen(n \div 2)

\* number of significant bits of a non-negative value
DBits(m) ==
    IF m[1] > 0 THEN 48 + BitLen(m[1])
    ELSE IF m[2] > 0 THEN 24 + BitLen(m[2])
    ELSE BitLen(m[3])

\* Round the exact value q + num/den (q >= 0 in limbs, 0 <= num < den) to a
\* 53-bit significand, ties to even.  The bits dropped all lie in the low limb.
RoundFrac(q, num, den) ==
    LET L == DBits(q)
        s == IF L > 53 THEN L - 53 ELSE 0
        g == 2^s
        low == q[3] % g
        odd == (q[3] \div g) % 2 = 1
        up == IF s = 0
              THEN 2 * num > den \/ (2 * num = den /\ odd)
              ELSE \/ 2 * low > g
                   \/ 2 * low = g /\ (num > 0 \/ odd)
    IN  Norm(q[1], q[2], q[3] - low + (IF up THEN g ELSE 0))

\* the float nearest to an exact value
Round53(x) ==
    IF DNegative(x) THEN DNeg(RoundFrac(DNeg(x), 0, 1))
    ELSE RoundFrac(x, 0, 1)

\* float +, -, and int * float
FAdd(x, y) == Round53(DAdd(x, y))
FSub(x, y) == Round53(DSub(x, y))
FMulInt(k, x) == Round53(DMul(k, x))

\* exact quotient and remainder of a non-negative value by a small integer
DivSmall(x, d) ==
    LET qa == x[1] \div d
        ra == x[1] % d
        nb == ra * LIMB + x[2]
        qb == nb \div d
        rb == nb % d
        nc == rb * LIMB + x[3]
    IN  <<Norm(qa, qb, nc \div d), nc % d>>

\* the float of the true quotient p / d of two small positive integers
FDivInt(p, d) ==
    LET qr == DivSmall(FromInt(p), d)
    IN  RoundFrac(qr[1], qr[2], d)

\* float % float for a positive divisor (CPython float_rem): C fmod, which is
\* exact and takes the sign of the dividend, then one rounded addition of the
\* divisor when the remainder is negative
RECURSIVE FmodAbs(_, _)
FmodAbs(m, w) == IF DLess(m, w) THEN m ELSE FmodAbs(DSub(m, w), w)

PyMod(x, w) ==
    LET r == FmodAbs(DAbs(x), w)
    IN  IF DNegative(x) /\ r # DZero THEN FAdd(DNeg(r), w) ELSE r

\* int(x // y) for a positive divisor: CPython float_floor_div corrects the
\* rounded quotient back to the floor of the true quotient of the two floats
RECURSIVE PyFloorDiv(_, _)
PyFloorDiv(x, y) ==
    IF DNegative(x) THEN PyFloorDiv(DAdd(x, y), y) - 1
    ELSE IF DLess(x, y) THEN 0
    ELSE PyFloorDiv(DSub(x, y), y) + 1

----------------------------------------------------------------------------
\* script.py / yearly_states.py constants

NAK_SIZE == FDivInt(360, 27)
TITHI_SIZE == 12
CIRCLE == 360

\* the float literals 23.85 and 0.01397 (= 1397 * 2^-5 / 3125)
AYANAMSA_BASE == FDivInt(2385, 100)
AYANAMSA_RATE ==
    LET s1 == DivSmall(<<1397 * 64, 0, 0>>, 125)
        s2 == DivSmall(s1[1], 25)
    IN  RoundFrac(s2[1], 125 * s2[2] + s1[2], 3125)

\* the drift counted from 1900 instead of 2000
ayanamsa_epoch1900(year) == FAdd(AYANAMSA_BASE, FMulInt(year - 1900, AYANAMSA_RATE))

ayanamsa(year) == FAdd(AYANAMSA_BASE, FMulInt(year - 2000, AYANAMSA_RATE))

\* x % 360
wrap360(x) == PyMod(x, FromInt(CIRCLE))

nakshatra_index(moon_lon) == PyFloorDiv(moon_lon, NAK_SIZE)

raasi_index(lon) == PyFloorDiv(lon, FromInt(30))

tithi_index(moon_lon, sun_lon) ==
    LET phase == wrap360(FSub(moon_lon, sun_lon))
    IN  PyFloorDiv(phase, FromInt(TITHI_SIZE)) + 1

\* The Tamil strings of the source are written here in Latin transliteration,
\* one distinct Latin string per distinct Tamil string.
PAURNAMI == "Pournami"
AMAVASAI == "Amavasai"
VALARPIRAI == "Valarpirai"
THEIPIRAI == "Theipirai"

get_moon_phase_name(tithi_i) ==
    IF tithi_i = 30 THEN AMAVASAI
    ELSE IF tithi_i = 15 THEN PAURNAMI
    ELSE IF 1 <= tithi_i /\ tithi_i <= 7 THEN "Valarpirai (Aarambam)"
    ELSE IF 8 <= tithi_i /\ tithi_i <= 14 THEN "Valarpirai (Mudivu)"
    ELSE IF 16 <= tithi_i /\ tithi_i <= 22 THEN "Theipirai (Aarambam)"
    ELSE "Theipirai (Mudivu)"

\* script.py
TITHI_ROOTS ==
    << "Prathamai", "Dvitiyai", "Tritiyai", "Chaturthi", "Panchami",
       "Shashti", "Saptami", "Ashtami", "Navami", "Dasami",
       "Ekadasi", "Dvadasi", "Trayodasi", "Chaturdasi", "Pournami",
       "Prathamai", "Dvitiyai", "Tritiyai", "Chaturthi", "Panchami",
       "Shashti", "Saptami", "Ashtami", "Navami", "Dasami",
       "Ekadasi", "Dvadasi", "Trayodasi", "Chaturdasi", "Amavasai" >>

\* the new-moon case left out: index 29 gets a prefix and its root
get_full_tithi_name_no_amavasai(i) ==
    LET tithi_num == i + 1
        root == TITHI_ROOTS[i + 1]
    IN  IF tithi_num = 15 THEN PAURNAMI
        ELSE (IF tithi_num < 15 THEN VALARPIRAI ELSE THEIPIRAI) \o " " \o root

\* i is the 0-based index; Python's TITHI_ROOTS[i] is element i + 1 here
get_full_tithi_name(i) ==
    LET tithi_num == i + 1
        root == TITHI_ROOTS[i + 1]
    IN  IF tithi_num = 15 THEN PAURNAMI
        ELSE IF tithi_num = 30 THEN AMAVASAI
        ELSE (IF tithi_num < 15 THEN VALARPIRAI ELSE THEIPIRAI) \o " " \o root

\* yearly_states.py
ys_TITHI_ROOTS ==
    << "Prathamai", "Dvitiyai", "Tritiyai", "Chaturthi", "Panchami",
       "Shashti", "Saptami", "Ashtami", "Navami", "Dasami",
       "Ekadasi", "Dvadasi", "Trayodasi", "Chaturdasi", "Pournami",
       "Prathamai", "Dvitiyai", "Tritiyai", "Chaturthi", "Panchami",
       "Shashti", "Saptami", "Ashtami", "Navami", "Dasami",
       "Ekadasi", "Dvadasi", "Trayodasi", "Chaturdasi", "Amavasai" >>

ys_get_full_tithi_name(i) ==
    LET tithi_num == i + 1
        root == ys_TITHI_ROOTS[i + 1]
    IN  IF tithi_num = 15 THEN PAURNAMI
        ELSE IF tithi_num = 30 THEN AMAVASAI
        ELSE (IF tithi_num < 15 THEN VALARPIRAI ELSE THEIPIRAI) \o " " \o root

NAKSHATRAS ==
    << "Ashwini", "Bharani", "Karthigai", "Rohini", "Mirugaseeridam",
       "Thiruvathirai", "Punarpoosam", "Poosam", "Ayilyam", "Magam",
       "Pooram", "Uthiram", "Hastham", "Chithirai", "Swathi", "Visakam",
       "Anusham", "Kettai", "Moolam", "Pooradam", "Uthiradam",
       "Thiruvonam", "Avittam", "Sathayam", "Poorattathi", "Uthirattathi",
       "Revathi" >>

RAASI_NAMES ==
    << "Mesham", "Rishabam", "Mithunam", "Kadagam", "Simmam", "Kanni",
       "Thulam", "Viruchigam", "Dhanusu", "Magaram", "Kumbam", "Meenam" >>

TAMIL_MONTHS ==
    << "Chithirai (Mesham)", "Vaikasi (Rishabham)", "Aani (Mithunam)",
       "Aadi (Katakam)", "Avani (Simham)", "Purattasi (Kanni)",
       "Aippasi (Tulaam)", "Karthigai (Vrischikam)", "Margazhi (Dhanusu)",
       "Thai (Makaram)", "Maasi (Kumbham)", "Panguni (Meenam)" >>

\* table[i] of Python for i >= 0: the entry, or IndexError past the end
Lookup(table, i) == IF i + 1 \in DOMAIN table THEN table[i + 1] ELSE "IndexError"

\* obs = <<moon_lon.degrees, sun_lon.degrees>>, what the ephemeris gives for dt;
\* year = dt.year.  The result is unwrapped.
\* What a call holds in place of a result when Skyfield raised (an instant
\* outside the span of the ephemeris file): the exception passes up through
\* every caller, none of which catches it.
EphemerisError == <<>>

\* A datetime dt is held as its wall-clock fields (dt.hours, the hour counted
\* from 0001-01-01T00:00, and dt.minute) and its tzinfo (dt.tz, "naive" for
\* None).
\* ts.utc(dt.year, dt.month, dt.day, dt.hour, dt.minute, dt.second): the
\* instant the ephemeris is asked for, made of the wall-clock fields alone
SkyfieldTime(dt) == <<dt.hours, dt.minute>>

true_ecliptic_longitudes(year, obs) ==
    IF obs = EphemerisError THEN EphemerisError
    ELSE <<FSub(obs[1], ayanamsa(year)), FSub(obs[2], ayanamsa(year))>>

\* One element of the trajectory arrays of the state-space plot, for the
\* unwrapped longitudes m, s of its instant (numpy float64 % and // round as
\* Python's do):
\*   nak_hist = (moon_hist % 360 // NAK_SIZE).astype(int)
\*   tithi_hist = ((moon_hist % 360 - sun_hist % 360) % 360 // TITHI_SIZE).astype(int)
nak_hist(m) == PyFloorDiv(wrap360(m), NAK_SIZE)
tithi_hist(m, s) ==
    PyFloorDiv(wrap360(FSub(wrap360(m), wrap360(s))), FromInt(TITHI_SIZE))

\* One run of script.py from its first line, for the selected instant: the
\* values bound at module level when the run ends.  A run that raises ends at
\* the raising line (script.py:272-273); the later names stay unbound.
RunOf(year, obs) ==
    LET lons == true_ecliptic_longitudes(year, obs)
        moon_lon == lons[1]
        sun_lon == lons[2]
        moon_lon_wrapped == wrap360(moon_lon)
        sun_lon_wrapped == wrap360(sun_lon)
        nak_i == nakshatra_index(moon_lon_wrapped)
        tithi_i == tithi_index(moon_lon_wrapped, sun_lon_wrapped)
        phase_name == get_moon_phase_name(tithi_i)
        phase_ang == wrap360(FSub(moon_lon_wrapped, sun_lon_wrapped))
        raasi_i == raasi_index(moon_lon_wrapped)
        nak_name == Lookup(NAKSHATRAS, nak_i)
        raasi_name == IF nak_name = "IndexError" THEN "" ELSE Lookup(RAASI_NAMES, raasi_i)
        raised == "IndexError" \in {nak_name, raasi_name}
        sun_rasi_index == PyFloorDiv(wrap360(sun_lon_wrapped), FromInt(30))
    IN  [ran |-> TRUE, year |-> year, obs |-> obs,
         moon_lon |-> moon_lon, sun_lon |-> sun_lon,
         moon_lon_wrapped |-> moon_lon_wrapped,
         sun_lon_wrapped |-> sun_lon_wrapped,
         nak_i |-> nak_i, tithi_i |-> tithi_i, phase_name |-> phase_name,
         phase_ang |-> phase_ang, raasi_i |-> raasi_i,
         nak_name |-> nak_name, raasi_name |-> raasi_name,
         error |-> IF raised THEN "IndexError" ELSE "",
         \* ax2.scatter(nak_i, tithi_i, ...): the highlighted current point
         current_point |-> IF raised THEN <<>> ELSE <<nak_i, tithi_i>>,
         \* where ax2.plot(nak_hist, tithi_hist) puts this run's instant
         trajectory_point |-> IF raised THEN <<>>
                              ELSE <<nak_hist(moon_lon), tithi_hist(moon_lon, sun_lon)>>,
         sun_rasi_index |-> IF raised THEN -1 ELSE sun_rasi_index,
         current_month |-> IF raised THEN "" ELSE Lookup(TAMIL_MONTHS, sun_rasi_index)]

----------------------------------------------------------------------------
\* yearly_states.py

ys_NAK_SIZE == FDivInt(360, 27)
ys_TITHI_SIZE == 12

ys_true_ecliptic_longitudes(year, obs) ==
    IF obs = EphemerisError THEN EphemerisError
    ELSE <<FSub(obs[1], ayanamsa(year)), FSub(obs[2], ayanamsa(year))>>

\* a failed lookup caught and answered with the indices of longitude 0
get_indices_default(year, obs) ==
    IF obs = EphemerisError THEN <<0, 0>>
    ELSE LET lons == ys_true_ecliptic_longitudes(year, obs)
             m_lon == wrap360(lons[1])
             s_lon == wrap360(lons[2])
         IN  <<PyFloorDiv(m_lon, ys_NAK_SIZE),
               PyFloorDiv(wrap360(FSub(m_lon, s_lon)), FromInt(ys_TITHI_SIZE))>>

\* get_indices(dt), with year = dt.year and obs what the ephemeris gives for dt
get_indices(year, obs) ==
    LET lons == ys_true_ecliptic_longitudes(year, obs)
        m_lon == wrap360(lons[1])
        s_lon == wrap360(lons[2])
        nak_idx == PyFloorDiv(m_lon, ys_NAK_SIZE)
        phase == wrap360(FSub(m_lon, s_lon))
        tithi_idx == PyFloorDiv(phase, FromInt(ys_TITHI_SIZE))
    IN  IF lons = EphemerisError THEN EphemerisError ELSE <<nak_idx, tithi_idx>>

\* Instants are datetimes in UTC on a whole hour, held as the number of hours
\* since 0001-01-01T00:00 (24 * (date.toordinal() - 1) + hour), so that
\* datetime + timedelta and datetime < datetime are + and < on integers, as
\* they are exact in Python.
IsLeap(y) == (y % 4 = 0 /\ y % 100 # 0) \/ y % 400 = 0
DaysInYear(y) == IF IsLeap(y) THEN 366 ELSE 365
DaysBeforeYear(y) ==
    (y - 1) * 365 + ((y - 1) \div 4) - ((y - 1) \div 100) + ((y - 1) \div 400)

\* datetime(y, 1, 1, tzinfo=timezone.utc)
NewYear(y) == 24 * DaysBeforeYear(y)

\* the year widget: min_value, max_value; the sampling step in hours
MIN_YEAR == 1900
MAX_YEAR == 2100
STEP_HOURS == 4

\* dt.year: the year whose span holds dt, looked for around dt / 365.25 days
YearOf(dt) ==
    LET guess == (dt \div (24 * 1461)) * 4 + ((dt % (24 * 1461)) \div (24 * 366)) + 1
    IN  CHOOSE y \in (guess - 1)..(guess + 1) : NewYear(y) <= dt /\ dt < NewYear(y + 1)

start_date(y) == NewYear(y)
end_date(y) == NewYear(y + 1)
\* a step of five hours
step_five_hours == STEP_HOURS + 1
step == STEP_HOURS

\* The ephemeris (de440s.bsp through Skyfield) is a collaborator outside the
\* repository: a fixed function from the instant to the two apparent
\* longitudes, each in [0, 360).  It is modelled by a family of mean-motion
\* ephemerides (Moon 0.549 deg/h, Sun 0.041 deg/h, whole degrees), one per
\* pair of longitudes at the start of MIN_YEAR - 1 and per last instant the
\* file covers (eph[3]); past it the lookup raises.
Observe(eph, dt) ==
    LET h == dt - NewYear(MIN_YEAR - 1)
    IN  IF dt > eph[3] THEN EphemerisError
        ELSE << FromInt((eph[1] + (h * 549) \div 1000) % CIRCLE),
                FromInt((eph[2] + (h * 41) \div 1000) % CIRCLE) >>

\* "while curr < end_date: times.append(curr); curr += step", followed for at
\* most LoopBlocks * BlockTurns turns; the result is <<curr, times>>.  The
\* turns are taken in blocks only to keep the evaluation shallow.
LoopBlocks == 35
BlockTurns == 2^6

RECURSIVE WhileTurns(_, _, _, _)
WhileTurns(c, e, acc, n) ==
    IF n = 0 \/ ~(c < e) THEN <<c, acc>>
    ELSE WhileTurns(c + step, e, Append(acc, c), n - 1)

RECURSIVE WhileLoop(_, _, _, _)
WhileLoop(c, e, acc, b) ==
    IF b = 0 \/ ~(c < e) THEN <<c, acc>>
    ELSE LET r == WhileTurns(c, e, acc, BlockTurns)
         IN  WhileLoop(r[1], e, r[2], b - 1)

\* what get_indices gives for each instant of the list (a pure function of
\* the instant), as a tuple
IndicesOf(e, ts) ==
    [k \in 1..Len(ts) |-> get_indices(YearOf(ts[k]), Observe(e, ts[k]))] \o <<>>

\* "for i, t in enumerate(times)": one get_indices per instant, its pair
\* appended in order; the first get_indices that raises ends the loop and
\* the run.  res is IndicesOf the instants; the result is
\* <<nak_history, tithi_history, error>>.
ForLoop(res) ==
    LET raised == { k \in 1..Len(res) : res[k] = EphemerisError }
        n == IF raised = {} THEN Len(res)
             ELSE (CHOOSE k \in raised : \A l \in raised : k <= l) - 1
    IN  << [k \in 1..n |-> res[k][1]] \o <<>>, [k \in 1..n |-> res[k][2]] \o <<>>,
           IF raised = {} THEN "none" ELSE "EphemerisRangeError" >>

\* one state per sample: the instant zipped in with the pair
UniqueStates_per_sample(naks, tithis) ==
    { <<k, naks[k], tithis[k]>> : k \in 1..Len(naks) }

\* set(zip(nak_history, tithi_history))
UniqueStates(naks, tithis) == { <<naks[k], tithis[k]>> : k \in 1..Len(naks) }

\* coverage = len(unique_states) / (27 * 30) * 100, held as the exact
\* fraction <<numerator, denominator>> of the percentage.  The two float
\* roundings are monotone and exact at 0 and at 810 / 810 * 100 = 100.0, so
\* the float is 0.0 exactly when the numerator is 0 and is at most 100.0
\* exactly when the fraction is at most 100.
coverage(us) == <<Cardinality(us) * 100, 27 * 30>>

\* Lines 141-204 as they act on the two lists: the plots (the start and end
\* markers index the lists, IndexError on an empty one), then the stats.
Analysis(naks, tithis) ==
    IF Len(naks) = 0 THEN [error |-> "IndexError"]
    ELSE [error |-> "none",
          start |-> <<naks[1], tithis[1]>>,
          end |-> <<naks[Len(naks)], tithis[Len(tithis)]>>,
          unique_states |-> UniqueStates(naks, tithis),
          coverage |-> coverage(UniqueStates(naks, tithis))]



----------------------------------------------------------------------------
\* Longitudes the functions are exercised on: every boundary of a nakshatra,
\* raasi or tithi sector, and its float neighbourhood.

MaxNudge == 1

\* 2^-59 (the model's grain), 2^-49 (one ulp at a nakshatra width),
\* 2^-45 and 2^-44 (half an ulp and one ulp just below 360)
NudgeUnits == { <<0, 0, 2^e>> : e \in {0, 10, 14, 15} }

Nudges == { DMul(j, u) : j \in (-MaxNudge)..MaxNudge, u \in NudgeUnits }

Around(x) == { FAdd(x, d) : d \in Nudges }

SectorDegrees == { n \in 0..CIRCLE : n % 12 = 0 \/ n % 30 = 0 \/ n % 40 = 0 }

Anchors ==
    { FromInt(n) : n \in SectorDegrees } \cup { FMulInt(k, NAK_SIZE) : k \in 0..27 }

\* 0 <= x < 360
InDomain(x) == ~DNegative(x) /\ DLess(x, FromInt(CIRCLE))

AllLons == UNION { Around(a) : a \in Anchors }
Lons == { x \in AllLons : InDomain(x) }

\* arguments of the wrap: unwrapped sidereal longitudes, negative ones and
\* ones beyond a full turn included
Unwrapped ==
    AllLons \cup { FSub(x, FromInt(CIRCLE)) : x \in AllLons }
            \cup { FAdd(x, FromInt(CIRCLE)) : x \in AllLons }

SunLons == UNION { Around(FromInt(n)) : n \in {0, 24, 200} }

\* dt.year of the instants script.py can be asked for: the date widget spans
\* 1900..2100 IST, and the scrub slider and the conversion to UTC reach into
\* the neighbouring years
ScriptYears == {1899, 2000, 2026, 2101}

\* what the ephemeris may answer, in [0, 360): round values, and values whose
\* sidereal longitude falls on a sector boundary or in its float neighbourhood
Observable(year) ==
    { x \in { FromInt(n) : n \in {0, 50, 280, 359} }
            \cup UNION { Around(FAdd(FromInt(n), ayanamsa(year))) : n \in {0, 40, 100} } :
        InDomain(x) }

----------------------------------------------------------------------------
\* years the sweep is run for: both ends of the widget's range, the default,
\* leap and common years, a leap and a common century year
SweepYears == {MIN_YEAR, 2000, 2026, MAX_YEAR}

\* the ephemerides of the family that are tried
Ephemerides ==
    { <<0, 0, NewYear(MAX_YEAR + 2)>>, <<77, 300, NewYear(MAX_YEAR + 2)>>,
      <<77, 300, NewYear(2026) + 24 * 200>> }

MaxRuns == 2

\* datetimes handed to true_ecliptic_longitudes: aware in UTC, aware in IST
\* (UTC+05:30) and naive, at the turn of a year and inside one
Datetimes ==
    { [hours |-> h, minute |-> m, tz |-> z] :
        h \in {NewYear(2000), NewYear(2000) + 5, NewYear(2026) + 24 * 200},
        m \in {0, 30}, z \in {"UTC", "IST", "naive"} }

\* what the ephemeris may answer
Answers ==
    { <<FromInt(50), FromInt(280)>>, <<FromInt(0), FromInt(359)>>, EphemerisError }

\* lists handed to the analysis, the empty one included
MaxTrajectory == 2
SamplePairs == { <<0, 0>>, <<13, 14>>, <<26, 29>> }
Trajectories == UNION { [1..n -> SamplePairs] : n \in 0..MaxTrajectory }

----------------------------------------------------------------------------
VARIABLES
    call,       \* the last call of one of the pure functions, with its result
    script,     \* the module-level values of script.py after its last run
    \* yearly_states.py
    eph,            \* the ephemeris the process has loaded
    year,           \* the year widget
    pc,             \* where the run of the script is
    curr, times, nak_history, tithi_history, unique_states,
    runs,           \* completed sweeps
    first           \* the outcome of the first completed sweep (history variable)

sweep == <<eph, year, pc, curr, times, nak_history, tithi_history,
           unique_states, runs, first>>

vars == <<call, script, sweep>>

NoCall == [fn |-> "none", x |-> DZero, y |-> DZero, i |-> 0, out |-> 0,
           outx |-> DZero, outs |-> "", outs2 |-> ""]

NotRun == [ran |-> FALSE]

Init ==
    /\ call = NoCall
    /\ script = NotRun
    /\ eph \in Ephemerides
    /\ year = 2026
    /\ pc = "idle"
    /\ curr = 0
    /\ times = <<>>
    /\ nak_history = <<>>
    /\ tithi_history = <<>>
    /\ unique_states = {}
    /\ runs = 0
    /\ first = [year |-> 0]

\* ---- the pure functions, called on their own, one call at a time ----

CallWrap ==
    /\ call.fn = "none"
    /\ \E x \in Unwrapped :
        /\ call' = [NoCall EXCEPT !.fn = "wrap360", !.x = x, !.outx = wrap360(x)]
        /\ UNCHANGED <<script, sweep>>

CallNakshatra ==
    /\ call.fn = "none"
    /\ \E lon \in Lons :
        /\ call' = [NoCall EXCEPT !.fn = "nakshatra_index", !.x = lon,
                                  !.out = nakshatra_index(lon)]
        /\ UNCHANGED <<script, sweep>>

CallRaasi ==
    /\ call.fn = "none"
    /\ \E lon \in Lons :
        /\ call' = [NoCall EXCEPT !.fn = "raasi_index", !.x = lon,
                                  !.out = raasi_index(lon)]
        /\ UNCHANGED <<script, sweep>>

CallTithi ==
    /\ call.fn = "none"
    /\ \E moon_lon \in Lons, sun_lon \in SunLons :
        /\ InDomain(sun_lon)
        /\ call' = [NoCall EXCEPT !.fn = "tithi_index", !.x = moon_lon,
                                  !.y = sun_lon,
                                  !.out = tithi_index(moon_lon, sun_lon)]
        /\ UNCHANGED <<script, sweep>>

CallTithiName ==
    /\ call.fn = "none"
    /\ \E n \in 0..29 :
        /\ call' = [NoCall EXCEPT !.fn = "get_full_tithi_name", !.i = n,
                                  !.outs = get_full_tithi_name(n),
                                  !.outs2 = ys_get_full_tithi_name(n)]
        /\ UNCHANGED <<script, sweep>>

CallPhaseName ==
    /\ call.fn = "none"
    /\ \E t \in 1..30 :
        /\ call' = [NoCall EXCEPT !.fn = "get_moon_phase_name", !.i = t,
                                  !.outs = get_moon_phase_name(t)]
        /\ UNCHANGED <<script, sweep>>

\* true_ecliptic_longitudes(dt), either copy, on a datetime of any tzinfo;
\* the ephemeris answers with a pair of longitudes or raises
CallLongitudes ==
    /\ call.fn = "none"
    /\ \E dt \in Datetimes, obs \in Answers, copy \in {"script", "yearly_states"} :
        /\ call' = [fn |-> "true_ecliptic_longitudes", copy |-> copy, dt |-> dt,
                    queried |-> << SkyfieldTime(dt) >>,
                    obs |-> obs,
                    result |-> IF copy = "script"
                               THEN true_ecliptic_longitudes(YearOf(dt.hours), obs)
                               ELSE ys_true_ecliptic_longitudes(YearOf(dt.hours), obs),
                    error |-> IF obs = EphemerisError
                              THEN "EphemerisRangeError" ELSE "none"]
        /\ UNCHANGED <<script, sweep>>

\* lines 141-204 of yearly_states.py on a pair of lists
AnalyseTrajectory ==
    /\ call.fn = "none"
    /\ \E tr \in Trajectories :
        /\ call' = [fn |-> "analysis",
                    nak_history |-> [k \in 1..Len(tr) |-> tr[k][1]],
                    tithi_history |-> [k \in 1..Len(tr) |-> tr[k][2]],
                    result |-> Analysis([k \in 1..Len(tr) |-> tr[k][1]],
                                        [k \in 1..Len(tr) |-> tr[k][2]])]
        /\ UNCHANGED <<script, sweep>>

\* the called function returns to its caller
Return ==
    /\ call.fn # "none"
    /\ call' = NoCall
    /\ UNCHANGED <<script, sweep>>

NextFn ==
    \/ Return
    \/ CallWrap
    \/ CallNakshatra
    \/ CallRaasi
    \/ CallTithi
    \/ CallTithiName
    \/ CallPhaseName
    \/ CallLongitudes
    \/ AnalyseTrajectory

SpecFn == Init /\ [][NextFn]_vars

\* ---- script.py: Streamlit runs the whole script again, from fresh module
\* ---- state, on every interaction

RunScript ==
    /\ ~script.ran
    /\ \E yr \in ScriptYears :
       \E moon \in Observable(yr), sun \in Observable(yr) :
           script' = RunOf(yr, <<moon, sun>>)
    /\ UNCHANGED <<call, sweep>>

Rerun ==
    /\ script.ran
    /\ script' = NotRun
    /\ UNCHANGED <<call, sweep>>

NextScript ==
    \/ RunScript
    \/ Rerun

SpecScript == Init /\ [][NextScript]_vars

\* ---- yearly_states.py: every interaction runs the script from its first
\* ---- line, to its end, in one thread; the sweep runs in the interaction
\* ---- that clicks the button

\* the list of the run before kept
kept_times == times
\* "times = []"
empty_times == <<>>

\* the year widget is changed: a run that draws the page and no more
SelectYear ==
    /\ pc \in {"idle", "done", "error"}
    /\ \E y \in SweepYears : y # year /\ year' = y
    /\ pc' = "idle"
    /\ curr' = 0
    /\ times' = <<>>
    /\ nak_history' = <<>>
    /\ tithi_history' = <<>>
    /\ unique_states' = {}
    /\ UNCHANGED <<call, script, eph, runs, first>>

\* "Generate Trajectory" is clicked: lines 106-204.  A while loop that has
\* not ended within the turns the model follows leaves the run looping; an
\* exception ends the run where it is raised, with what was assigned so far.
Generate ==
    /\ pc \in {"idle", "done", "error"}
    /\ runs < MaxRuns
    /\ \E loop \in {WhileLoop(start_date(year), end_date(year), empty_times, LoopBlocks)} :
       \E res \in {IF loop[1] < end_date(year) THEN <<>> ELSE IndicesOf(eph, loop[2])} :
       \E hist \in {ForLoop(res)} :
       \E stats \in {IF hist[3] = "none" THEN Analysis(hist[1], hist[2])
                                          ELSE [error |-> hist[3]]} :
           /\ curr' = loop[1]
           /\ times' = loop[2]
           /\ nak_history' = hist[1]
           /\ tithi_history' = hist[2]
           /\ IF loop[1] < end_date(year)
              THEN /\ pc' = "looping"
                   /\ unique_states' = {}
                   /\ UNCHANGED <<runs, first>>
              ELSE IF stats.error # "none"
              THEN /\ pc' = "error"
                   /\ unique_states' = {}
                   /\ UNCHANGED <<runs, first>>
              ELSE /\ pc' = "done"
                   /\ unique_states' = stats.unique_states
                   /\ runs' = runs + 1
                   /\ first' = IF runs = 0
                               THEN [year |-> year, times |-> loop[2],
                                     nak_history |-> hist[1],
                                     tithi_history |-> hist[2]]
                               ELSE first
    /\ UNCHANGED <<call, script, eph, year>>

NextSweep ==
    \/ SelectYear
    \/ Generate

SpecSweep == Init /\ [][NextSweep]_vars

----------------------------------------------------------------------------
\* Properties

\* exact floor(n * x / 360) for a non-negative float x: the sector of x when
\* the circle is cut into n equal sectors, in real arithmetic
Sector(n, x) == PyFloorDiv(DMul(n, x), FromInt(CIRCLE))

\* C1: for every longitude in [0, 360) nakshatra_index is in 0..26 and
\* raasi_index in 0..11, and for every pair of longitudes in [0, 360)
\* tithi_index is in 1..30.
C1_IndexTotality ==
    /\ call.fn = "nakshatra_index" /\ InDomain(call.x) => call.out \in 0..26
    /\ call.fn = "raasi_index" /\ InDomain(call.x) => call.out \in 0..11
    /\ call.fn = "tithi_index" /\ InDomain(call.x) /\ InDomain(call.y)
           => call.out \in 1..30

\* C2: when the wrapped moon longitude handed to nakshatra_index is 360, the
\* index is 0 (never 27), so that it indexes the 27 names.
C2_Guards360 ==
    script.ran /\ script.moon_lon_wrapped = FromInt(CIRCLE)
        => script.nak_i = 0 /\ script.nak_name = NAKSHATRAS[1]

\* C3: every index computation is handed a longitude that went through % 360
\* and lies in [0, 360).
C3_WrappedBeforeIndex ==
    script.ran =>
        /\ script.moon_lon_wrapped = wrap360(script.moon_lon)
        /\ script.sun_lon_wrapped = wrap360(script.sun_lon)
        /\ InDomain(script.moon_lon_wrapped)
        /\ InDomain(script.sun_lon_wrapped)

\* C4: nakshatra_index(lon) = k exactly when k * 360/27 <= lon < (k+1) * 360/27,
\* and tithi_index = k + 1 exactly when 12 k <= phase < 12 (k + 1) for the
\* phase (moon_lon - sun_lon) % 360.
C4_BoundaryExact ==
    /\ call.fn = "nakshatra_index" => call.out = Sector(27, call.x)
    /\ call.fn = "tithi_index" =>
           LET phase == wrap360(FSub(call.x, call.y))
               k == call.out - 1
           IN  /\ DLeq(FromInt(12 * k), phase)
               /\ DLess(phase, FromInt(12 * (k + 1)))

\* C5: x % 360 lies in [0, 360) for every x, and (x + 360) % 360 = x % 360.
C5_WrapInvariance ==
    call.fn = "wrap360" =>
        /\ InDomain(call.outx)
        /\ wrap360(FAdd(call.x, FromInt(CIRCLE))) = call.outx

\* the reference scenario: an instant of year 2000, the ephemeris answering
\* 50.0 for the Moon and 280.0 for the Sun
Scenario ==
    script.ran /\ script.year = 2000 /\ script.obs = <<FromInt(50), FromInt(280)>>

ScenarioButPhase ==
    /\ ayanamsa(2000) = FDivInt(2385, 100)
    /\ script.moon_lon_wrapped = FDivInt(2615, 100)
    /\ script.sun_lon_wrapped = FDivInt(25615, 100)
    /\ script.nak_i = 1
    /\ script.tithi_i = 11

\* C6 as stated: in the reference scenario the ayanamsa is 23.85, the wrapped
\* longitudes are 26.15 and 256.15, the nakshatra index is 1, the phase is
\* 130.0 and the tithi index is 11.
C6_ScenarioExactPhase ==
    Scenario => ScenarioButPhase /\ script.phase_ang = FromInt(130)

\* C6 as amended: the same, the phase being the float next above 130.0
\* (130 + 2^-45, printed 130.00000000000003).
C6_Scenario ==
    Scenario => ScenarioButPhase
                /\ script.phase_ang = DAdd(FromInt(130), <<0, 0, 2^14>>)

C6_Witness == Scenario

\* C7: get_full_tithi_name(i), i in 0..29, is the bare full-moon name for
\* i = 14, the bare new-moon name for i = 29, and otherwise the waxing prefix
\* (i + 1 < 15) or the waning prefix (i + 1 >= 15), a space and the root name;
\* the roots repeat with period 15 over 0..13; both copies agree.
C7_TithiName ==
    call.fn = "get_full_tithi_name" =>
        LET n == call.i
        IN  /\ n = 14 => call.outs = "Pournami"
            /\ n = 29 => call.outs = "Amavasai"
            /\ n \notin {14, 29} =>
                   call.outs = (IF n + 1 < 15 THEN "Valarpirai" ELSE "Theipirai")
                               \o " " \o TITHI_ROOTS[(n % 15) + 1]
            /\ n \in 0..13 => TITHI_ROOTS[n + 1] = TITHI_ROOTS[n + 16]
            /\ call.outs2 = call.outs

C7_Witness == call.fn = "get_full_tithi_name" /\ call.i = 20

\* C8: get_moon_phase_name follows the table 30 -> new moon, 15 -> full moon,
\* 1..7 / 8..14 -> waxing early / late, 16..22 / 23..29 -> waning early /
\* late, and on an argument that comes from tithi_index the last branch
\* (waning late) is taken only for 23..29.
C8_PhaseTable ==
    /\ call.fn = "get_moon_phase_name" =>
           call.outs = CASE call.i = 30 -> "Amavasai"
                         [] call.i = 15 -> "Pournami"
                         [] call.i \in 1..7 -> "Valarpirai (Aarambam)"
                         [] call.i \in 8..14 -> "Valarpirai (Mudivu)"
                         [] call.i \in 16..22 -> "Theipirai (Aarambam)"
                         [] call.i \in 23..29 -> "Theipirai (Mudivu)"
    /\ script.ran /\ script.phase_name = "Theipirai (Mudivu)"
           => script.tithi_i \in 23..29

\* C9: the sweep of a year ends, and when it has ended the instants are
\* Jan 1 00:00 + k * 4 h for k = 0 .. 6 * days - 1, strictly increasing, all
\* within the year, with one (nakshatra, tithi) pair per instant in order.
SweepShape ==
    pc = "done" =>
        LET N == 6 * DaysInYear(year)
        IN  /\ Len(times) = N
            /\ Len(nak_history) = N
            /\ Len(tithi_history) = N
            /\ \A k \in 1..N :
                /\ times[k] = NewYear(year) + (k - 1) * 4
                /\ NewYear(year) <= times[k] /\ times[k] < NewYear(year + 1)
                /\ k > 1 => times[k - 1] < times[k]
                /\ <<nak_history[k], tithi_history[k]>>
                       = get_indices(YearOf(times[k]), Observe(eph, times[k]))

C9_FullYearSweep == pc # "looping" /\ SweepShape

C9_Witness == pc = "done" /\ year = 2000 /\ Len(times) = 2196

C14_EphemerisFailure ==
    pc \in {"done", "error"} =>
        LET raising == { k \in 1..Len(times) : Observe(eph, times[k]) = EphemerisError }
        IN  /\ Len(nak_history) = Len(tithi_history)
            /\ \A k \in 1..Len(nak_history) :
                   /\ k \notin raising
                   /\ <<nak_history[k], tithi_history[k]>>
                          = get_indices(YearOf(times[k]), Observe(eph, times[k]))
            /\ pc = "done" <=> raising = {}
            /\ pc = "done" => Len(nak_history) = Len(times)
            /\ pc = "error" => /\ unique_states = {}
                               /\ \A k \in raising : Len(nak_history) < k
                               /\ Len(nak_history) + 1 \in raising

\* a sweep stopped by the ephemeris part-way through the year
C14_Witness == pc = "error" /\ Len(nak_history) > 0 /\ Len(nak_history) < Len(times)

\* C15: for the longitudes of any instant the zero-based tithi of the
\* sampler (get_indices) and of the trajectory array (tithi_hist) is in 0..29
\* and is tithi_index - 1, and tithi_index on the unwrapped longitudes gives
\* what it gives on the wrapped ones.
C15_SamplerRange ==
    script.ran =>
        /\ get_indices(script.year, script.obs)[2] \in 0..29
        /\ tithi_hist(script.moon_lon, script.sun_lon) \in 0..29

C15_OneApart ==
    script.ran =>
        /\ get_indices(script.year, script.obs)[2] = script.tithi_i - 1
        /\ tithi_hist(script.moon_lon, script.sun_lon) = script.tithi_i - 1

C15_WrappedOrNot ==
    script.ran => tithi_index(script.moon_lon, script.sun_lon) = script.tithi_i

C15_TithiConventions == C15_SamplerRange /\ C15_OneApart /\ C15_WrappedOrNot

\* C16: the current point of the state-space plot has the coordinates the
\* trajectory arrays give for the same instant.
C16_SameCoordinates ==
    script.ran /\ script.error = ""
        => script.current_point = script.trajectory_point

=============================================================================
